---- MODULE Spec2Model ----
(***************************************************************************)
(* Offline synchronization engine of offline-media-pwa: the media queue    *)
(* (db.js), the sync coordinator (sync.js) and the connectivity events.    *)
(*                                                                         *)
(* One action is one run-to-completion step of the JavaScript event loop:  *)
(* a handler runs from the event that wakes it up to its next await on a   *)
(* store request, a timer or a network call.  A store request takes effect *)
(* when it is issued (IndexedDB runs the transactions of one store in the  *)
(* order of their creation), so a step that ends by issuing a write        *)
(* contains the write.                                                     *)
(***************************************************************************)
EXTENDS Integers, Sequences, FiniteSets, TLC

\* ------------------------------------------------------------- bounds
MaxItems == 3         \* Queue Items ever enqueued
MaxRecords == 2       \* Records ever created
MaxPasses == 2        \* syncQueue passes in flight at the same time
MaxOverlapItems == 1  \* passes overlap only while the queue holds at most this many items
MaxLiveItems == 2     \* Queue Items enqueued under LiveSpec
MaxErrItems == 2      \* Queue Items enqueued under ErrSpec
MaxFileSize == 2      \* size of one media file, in units of storage
StorageQuota == 3     \* the quota navigator.storage.estimate() reports
MaxBgItems == 1
MaxStored == 2
MaxChunkedSize == 7
MaxDelItems == 1
MaxFetches == 3        \* dispatches of the item under study
MaxRuns == 2           \* syncQueueItem calls in flight for the item under study

\* ---------------------------------------------------- program constants
DefaultMaxAttempts == 5

NoError == "null"
ErrorMessage == "error.message"
QuotaExceededError == "QuotaExceededError"
StoreError == "request.error"

\* the title field of the form: empty or filled in
Titles == {"", "title"}
\* the files of a submission of n files, as their sizes
FileLists(n) == [1..n -> 1..MaxFileSize]
\* what navigator.storage.estimate() answers, or NoEstimate where the API is missing
NoEstimate == [quota |-> 0, usage |-> 0, api |-> FALSE]
Estimates ==
    {NoEstimate} \cup {[quota |-> StorageQuota, usage |-> u, api |-> TRUE] : u \in 0..StorageQuota}

VARIABLES
    online,       \* navigator.onLine
    syncStatus,   \* sync.js: let syncStatus
    records,      \* store 'records': id -> record
    queue,        \* store 'mediaQueue': id -> queue item
    enq,          \* the enqueueSubmission call in flight, if any
    passes,       \* the syncQueue passes in flight, oldest first
    delivered,    \* per item, how many transfers of it the remote service has
                  \* accepted: 0, 1, or 2 for "more than one"
    sw,           \* service-worker.js: the background sync queue 'media-uploads'
                  \* and the request onSync is replaying, if any
    upload,       \* api.js: the uploadMediaChunked call under study, if any
    xfer          \* one Queue Item with the size of its file, its progress
                  \* fields and the syncQueueItem calls in flight for it

vars == <<online, syncStatus, records, queue, enq, passes, delivered, sw, upload, xfer>>

SYNC_STATUS == [IDLE |-> "idle", SYNCING |-> "syncing", SUCCESS |-> "success", ERROR |-> "error"]

PassIds == DOMAIN passes
ItemIds == DOMAIN queue
RecordIds == DOMAIN records

NoEnq == [rec |-> 0, left |-> 0, err |-> NoError]
NoTasks == [i \in {} |-> 0]
\* return { synced: 0, failed: 0 }
ZeroCounts == [settled |-> TRUE, synced |-> 0, failed |-> 0]
\* the promise of a call that has started a pass is still pending
PendingPromise == [settled |-> FALSE, synced |-> 0, failed |-> 0]

NumInFlight == Len(passes)

\* the service worker has stored no request and replays none
NoSw == [stored |-> <<>>, replay |-> 0, running |-> FALSE]
\* no request of a chunked upload is in flight
NoRequest == [kind |-> "none", index |-> 0, upload_id |-> 0]
\* no call of uploadMediaChunked is under way
NoUpload ==
    [phase |-> "idle", fileSize |-> 0, totalChunks |-> 0, chunkIndex |-> 0, retries |-> 0,
     upload_id |-> 0, req |-> NoRequest, sent |-> <<>>, acked |-> {}, reported |-> <<>>]

\* no item is under study; a syncQueueItem call that is not in flight
RunIds == 1..MaxRuns
NoRun == [pc |-> "none", useChunked |-> FALSE, next |-> 0]
NoXfer ==
    [status |-> "none", fileSize |-> 0, useChunked |-> FALSE, uploadProgress |-> 0,
     bytesUploaded |-> 0, fetches |-> 0, runs |-> [r \in RunIds |-> NoRun]]

\* ------------------------------------------------------------- db.js
\* updateQueueItem: { ...item, ...updates } in one readwrite transaction
updateQueueItem(q, id, updates) ==
    [q EXCEPT ![id] = [f \in DOMAIN q[id] |->
                          IF f \in DOMAIN updates THEN updates[f] ELSE q[id][f]]]

\* updateRecord: { ...record, ...updates }
updateRecord(r, id, updates) ==
    [r EXCEPT ![id] = [f \in DOMAIN r[id] |->
                          IF f \in DOMAIN updates THEN updates[f] ELSE r[id][f]]]

\* index.getAll('pending') on the status index; and the same with a wrong key
getPendingWrongKey(q) == {i \in DOMAIN q : q[i].status = "queued"}
getPendingQueueItems(q) == {i \in DOMAIN q : q[i].status = "pending"}

\* index.getAll(submissionId) on the submissionId index
getQueueItemsBySubmissionId(q, submissionId) ==
    {i \in DOMAIN q : q[i].submissionId = submissionId}

\* the item enqueueMedia adds: attempts || 0, maxAttempts || 5, error null;
\* and a slip of it that counts the enqueue as an attempt
enqueueMediaCountsAttempt(q, submissionId) ==
    Append(q, [submissionId |-> submissionId,
               status |-> "pending",
               attempts |-> 1,
               maxAttempts |-> DefaultMaxAttempts,
               error |-> NoError,
               uploadProgress |-> 0])
enqueueMedia(q, submissionId) ==
    Append(q, [submissionId |-> submissionId,
               status |-> "pending",
               attempts |-> 0,
               maxAttempts |-> DefaultMaxAttempts,
               error |-> NoError,
               uploadProgress |-> 0])

\* createRecord storing the record as synced already
createRecordSynced(r, title, nFiles) ==
    Append(r, [title |-> title, synced |-> TRUE, nFiles |-> nFiles, deleted |-> FALSE])

\* createRecord: store.add({...record, synced: false})
createRecord(r, title, nFiles) ==
    Append(r, [title |-> title, synced |-> FALSE, nFiles |-> nFiles, deleted |-> FALSE])

\* ------------------------------------------------------------ utils.js
\* getStorageQuota: available = (estimate.quota || 0) - (estimate.usage || 0),
\* and all zeros where navigator.storage.estimate is missing
getStorageQuota(estimate) ==
    IF estimate.api
    THEN [quota |-> estimate.quota, usage |-> estimate.usage,
          available |-> estimate.quota - estimate.usage]
    ELSE [quota |-> 0, usage |-> 0, available |-> 0]

\* checkStorageAvailability, and a slip of it that never refuses
EnoughAlways(estimate, fileSize) ==
    [enough |-> TRUE, available |-> getStorageQuota(estimate).available, needed |-> fileSize]
checkStorageAvailability(estimate, fileSize) ==
    LET available == getStorageQuota(estimate).available
    IN [enough |-> available >= fileSize, available |-> available, needed |-> fileSize]

Init ==
    /\ online \in BOOLEAN
    /\ syncStatus = SYNC_STATUS.IDLE
    /\ records = <<>>
    /\ queue = <<>>
    /\ enq = NoEnq
    /\ passes = <<>>
    /\ delivered = <<>>
    /\ sw = NoSw
    /\ upload = NoUpload
    /\ xfer = NoXfer

\* ------------------------------------------------------------ sync.js
\* every pass in flight has now seen a connectivity event since it started
MarkConnEvt(ps) == [p \in DOMAIN ps |-> [ps[p] EXCEPT !.connEvt = TRUE]]

\* the dispatches of a new pass: one per fetched item, holding the item as fetched
Dispatches(q) == [i \in getPendingQueueItems(q) |-> [snap |-> q[i].attempts, pc |-> "wait"]]

\* A pass in flight: its dispatches not yet settled, the counts of the settled
\* ones, the items it fetched, how many of them it has marked 'synced', whether
\* a connectivity event has fired since it started, whether a store request of
\* it has been rejected and whether its fetch was.
StartPass(ps, q) ==
    Append(ps, [tasks |-> Dispatches(q), synced |-> 0, failed |-> 0, connEvt |-> FALSE,
                fetched |-> getPendingQueueItems(q), reached |-> 0,
                dbError |-> FALSE, rejected |-> FALSE])

\* syncQueue without its first guard
syncQueueNoOfflineGuard(isOnline, st, ps, q) ==
    IF st = SYNC_STATUS.SYNCING
    THEN [syncStatus |-> st, passes |-> ps, ret |-> ZeroCounts]
    ELSE [syncStatus |-> SYNC_STATUS.SYNCING, passes |-> StartPass(ps, q), ret |-> PendingPromise]

\* syncQueue up to its first await: the two guards, then notify 'syncing' and
\* fetch the pending items.  The values of syncStatus and passes after the call
\* and what the call has returned, given navigator.onLine and the stores as the
\* call sees them.
syncQueue(isOnline, st, ps, q) ==
    IF ~isOnline
    THEN [syncStatus |-> st, passes |-> ps, ret |-> ZeroCounts]
    ELSE IF st = SYNC_STATUS.SYNCING
    THEN [syncStatus |-> st, passes |-> ps, ret |-> ZeroCounts]
    ELSE [syncStatus |-> SYNC_STATUS.SYNCING, passes |-> StartPass(ps, q), ret |-> PendingPromise]

\* Bounds of the model: at most MaxPasses passes are in flight, and a pass goes
\* in flight beside another one only while at most MaxOverlapItems items are
\* enqueued or being enqueued.
Load == Len(queue) + enq.left
MayStartPass == NumInFlight = 0 \/ (NumInFlight < MaxPasses /\ Load <= MaxOverlapItems)
MayEnqueue(n) ==
    /\ Len(records) < MaxRecords
    /\ Len(queue) + n <= MaxItems
    /\ NumInFlight > 1 => Len(queue) + n <= MaxOverlapItems
CanCall(isOnline, st) == (isOnline /\ st # SYNC_STATUS.SYNCING) => MayStartPass

\* checkAndUpdateRecordSyncStatus: queueItems.every(item => item.status === 'synced')
AllSynced(q, submissionId) ==
    \A j \in getQueueItemsBySubmissionId(q, submissionId) : q[j].status = "synced"

\* checkAndUpdateRecordSyncStatus with the flag following the items both ways
checkAndUpdateTogglesFlag(r, q, submissionId) ==
    IF AllSynced(q, submissionId)
    THEN updateRecord(r, submissionId, [synced |-> ~r[submissionId].synced])
    ELSE r

\* checkAndUpdateRecordSyncStatus run without interleaving: the records store
\* after it
checkAndUpdateRecordSyncStatus(r, q, submissionId) ==
    IF AllSynced(q, submissionId)
    THEN updateRecord(r, submissionId, [synced |-> TRUE])
    ELSE r

\* retryFailedItems selecting every 'failed' item
AllFailedItems(q) == {i \in DOMAIN q : q[i].status = "failed"}

\* retryFailedItems: the items it selects
FailedItems(q) == {i \in DOMAIN q : q[i].status = "failed" /\ q[i].attempts < q[i].maxAttempts}

RECURSIVE ResetAll(_, _)
ResetAll(q, S) ==
    IF S = {} THEN q
    ELSE LET i == CHOOSE x \in S : TRUE
         IN ResetAll(updateQueueItem(q, i, [status |-> "pending", error |-> NoError]), S \ {i})

\* retryFailedItems: reset the selected items, then syncQueue() if any was
\* selected and the browser is online
retryFailedItems(isOnline, st, ps, q) ==
    LET failedItems == FailedItems(q)
        q2 == ResetAll(q, failedItems)
    IN IF failedItems # {} /\ isOnline
       THEN LET r == syncQueue(isOnline, st, ps, q2)
            IN [queue |-> q2, syncStatus |-> r.syncStatus, passes |-> r.passes, ret |-> r.ret]
       ELSE [queue |-> q2, syncStatus |-> st, passes |-> ps, ret |-> ZeroCounts]

\* const totalSize = mediaFiles.reduce((sum, file) => sum + file.size, 0)
RECURSIVE TotalSize(_)
TotalSize(files) == IF files = <<>> THEN 0 ELSE Head(files) + TotalSize(Tail(files))

\* enqueueSubmission up to the issue of createRecord: the error it throws, if
\* any, the records store after it and the id of the Record it has created
enqueueSubmission(title, files, estimate, r) ==
    LET storageCheck == checkStorageAvailability(estimate, TotalSize(files))
    IN IF ~storageCheck.enough
       THEN [error |-> QuotaExceededError, records |-> r, recordId |-> 0]
       ELSE [error |-> NoError, records |-> createRecord(r, title, Len(files)),
             recordId |-> Len(r) + 1]

\* the submit handler of the form: if (!title || mediaFiles.length === 0) return
SubmitGuard(title, files) == title # "" /\ Len(files) # 0

\* const shouldRetry = newAttempts < queueItem.maxAttempts, and two slips of it
ShouldRetryOffByOne(newAttempts, maxAttempts) == newAttempts <= maxAttempts
ShouldRetryGivesUpEarly(newAttempts, maxAttempts) == newAttempts + 1 < maxAttempts
ShouldRetry(newAttempts, maxAttempts) == newAttempts < maxAttempts

\* the write of the catch block of syncQueueItem, on the item as it was fetched;
\* and a slip of it that puts the item back without recording the failure
CatchUpdateLosesError(q, i, snap) ==
    updateQueueItem(q, i, [status |-> "pending", uploadProgress |-> 0])
CatchUpdate(q, i, snap) ==
    LET newAttempts == snap + 1
        shouldRetry == ShouldRetry(newAttempts, q[i].maxAttempts)
    IN updateQueueItem(q, i, [status |-> IF shouldRetry THEN "pending" ELSE "failed",
                              attempts |-> newAttempts,
                              error |-> ErrorMessage,
                              uploadProgress |-> 0])

\* failed === 0 ? SUCCESS : ERROR, and a slip of it
FinalStatusHidesFailures(failed) == "success"
FinalStatus(failed) == IF failed = 0 THEN SYNC_STATUS.SUCCESS ELSE SYNC_STATUS.ERROR

\* ---------------------------------------------------------- the actions
\* the form is submitted: enqueueSubmission up to the issue of createRecord
EnqueueStart(n) ==
    /\ enq = NoEnq
    /\ MayEnqueue(n)
    /\ \E title \in Titles, files \in FileLists(n), estimate \in Estimates :
          /\ SubmitGuard(title, files)
          /\ LET r == enqueueSubmission(title, files, estimate, records)
             IN /\ r.error = NoError
                /\ records' = r.records
                /\ enq' = [rec |-> r.recordId, left |-> n, err |-> NoError]
    /\ UNCHANGED <<online, syncStatus, queue, passes, delivered, sw, upload, xfer>>

\* one enqueueMedia: the FileReader has loaded the file, store.add is issued
EnqueueWrite ==
    /\ enq.left > 0
    /\ queue' = enqueueMedia(queue, enq.rec)
    /\ enq' = [enq EXCEPT !.left = @ - 1]
    /\ delivered' = Append(delivered, 0)
    /\ UNCHANGED <<online, syncStatus, records, passes, sw, upload, xfer>>

\* Promise.all(queuePromises) has resolved: if (isOnline()) syncQueue()
EnqueueFinish ==
    /\ enq.rec # 0 /\ enq.left = 0 /\ enq.err = NoError
    /\ CanCall(online, syncStatus)
    /\ LET r == IF online THEN syncQueue(online, syncStatus, passes, queue)
                ELSE [syncStatus |-> syncStatus, passes |-> passes]
       IN /\ syncStatus' = r.syncStatus
          /\ passes' = r.passes
    /\ enq' = NoEnq
    /\ UNCHANGED <<online, records, queue, delivered, sw, upload, xfer>>

\* the 'Sync Now' button: sync.syncQueue()
SyncNow ==
    /\ CanCall(online, syncStatus)
    /\ LET r == syncQueue(online, syncStatus, passes, queue)
       IN /\ syncStatus' = r.syncStatus
          /\ passes' = r.passes
    /\ UNCHANGED <<online, records, queue, enq, delivered, sw, upload, xfer>>

\* window 'online' event: syncQueue()
OnlineEvent ==
    /\ ~online
    /\ online' = TRUE
    /\ CanCall(TRUE, syncStatus)
    /\ LET r == syncQueue(TRUE, syncStatus, MarkConnEvt(passes), queue)
       IN /\ syncStatus' = r.syncStatus
          /\ passes' = r.passes
    /\ UNCHANGED <<records, queue, enq, delivered, sw, upload, xfer>>

\* window 'offline' event: notifySyncStatusChange(SYNC_STATUS.IDLE)
OfflineEvent ==
    /\ online
    /\ online' = FALSE
    /\ syncStatus' = SYNC_STATUS.IDLE
    /\ passes' = MarkConnEvt(passes)
    /\ UNCHANGED <<records, queue, enq, delivered, sw, upload, xfer>>

\* retryFailedItems
RetryFailedItems ==
    LET r == retryFailedItems(online, syncStatus, passes, queue)
    IN /\ FailedItems(queue) # {} => CanCall(online, syncStatus)
       /\ queue' = r.queue
       /\ syncStatus' = r.syncStatus
       /\ passes' = r.passes
       /\ UNCHANGED <<online, records, enq, delivered, sw, upload, xfer>>

RemovePass(ps, p) == [q \in 1..(Len(ps) - 1) |-> IF q < p THEN ps[q] ELSE ps[q + 1]]
\* return { synced, failed }
Returned(p) == [settled |-> TRUE, synced |-> passes[p].synced, failed |-> passes[p].failed]
Task(p, i) == passes[p].tasks[i]
HasTask(p, i, pc) == i \in DOMAIN passes[p].tasks /\ Task(p, i).pc = pc
SetPc(p, i, pc) == [passes EXCEPT ![p].tasks[i].pc = pc]
SettleDropsFailure(p, i, ok) ==
    [passes EXCEPT ![p] = [@ EXCEPT !.tasks = [j \in DOMAIN @ \ {i} |-> @[j]],
                                    !.synced = IF ok THEN @ + 1 ELSE @]]
Settle(p, i, ok) ==
    [passes EXCEPT ![p] = [@ EXCEPT !.tasks = [j \in DOMAIN @ \ {i} |-> @[j]],
                                    !.synced = IF ok THEN @ + 1 ELSE @,
                                    !.failed = IF ok THEN @ ELSE @ + 1]]

\* syncQueueItem, the timer of item i has fired: status 'uploading', attempts + 1,
\* then the Transfer Client is invoked.  The timers fire in index order.
Begin(p, i) ==
    /\ HasTask(p, i, "wait")
    /\ \A j \in DOMAIN passes[p].tasks : j < i => Task(p, j).pc # "wait"
    /\ queue' = updateQueueItem(queue, i, [status |-> "uploading",
                                           attempts |-> Task(p, i).snap + 1,
                                           uploadProgress |-> 0])
    /\ passes' = SetPc(p, i, "upload")
    /\ UNCHANGED <<online, syncStatus, records, enq, delivered, sw, upload, xfer>>

\* the transfer has succeeded: status 'synced'
TransferOk(p, i) ==
    /\ HasTask(p, i, "upload")
    /\ queue' = updateQueueItem(queue, i, [status |-> "synced", uploadProgress |-> 100])
    /\ passes' = [SetPc(p, i, "reconcile") EXCEPT ![p].reached = @ + 1]
    /\ delivered' = [delivered EXCEPT ![i] = IF @ < 2 THEN @ + 1 ELSE @]
    /\ UNCHANGED <<online, syncStatus, records, enq, sw, upload, xfer>>

\* the transfer has failed: the catch block
TransferFail(p, i) ==
    /\ HasTask(p, i, "upload")
    /\ queue' = CatchUpdate(queue, i, Task(p, i).snap)
    /\ passes' = Settle(p, i, FALSE)
    /\ UNCHANGED <<online, syncStatus, records, enq, delivered, sw, upload, xfer>>

\* checkAndUpdateRecordSyncStatus: getQueueItemsBySubmissionId, every(...)
ReconcileRead(p, i) ==
    /\ HasTask(p, i, "reconcile")
    /\ passes' = IF AllSynced(queue, queue[i].submissionId)
                 THEN SetPc(p, i, "recwrite")
                 ELSE Settle(p, i, TRUE)
    /\ UNCHANGED <<online, syncStatus, records, queue, enq, delivered, sw, upload, xfer>>

\* checkAndUpdateRecordSyncStatus: updateRecord(submissionId, { synced: true })
\* When the Record is gone, updateRecord rejects with 'Record not found' and
\* the catch block of syncQueueItem runs.
ReconcileWrite(p, i) ==
    /\ HasTask(p, i, "recwrite")
    /\ IF records[queue[i].submissionId].deleted
       THEN /\ queue' = CatchUpdate(queue, i, Task(p, i).snap)
            /\ passes' = Settle(p, i, FALSE)
            /\ UNCHANGED records
       ELSE /\ records' = updateRecord(records, queue[i].submissionId, [synced |-> TRUE])
            /\ passes' = Settle(p, i, TRUE)
            /\ UNCHANGED queue
    /\ UNCHANGED <<online, syncStatus, enq, delivered, sw, upload, xfer>>

\* Promise.allSettled has resolved (or no item was pending): the final status
FinishPass(p) ==
    /\ DOMAIN passes[p].tasks = {}
    /\ ~passes[p].rejected
    /\ syncStatus' = FinalStatus(passes[p].failed)
    /\ passes' = RemovePass(passes, p)
    /\ UNCHANGED <<online, records, queue, enq, delivered, sw, upload, xfer>>

Next ==
    \/ \E n \in 1..MaxItems : EnqueueStart(n)
    \/ EnqueueWrite
    \/ EnqueueFinish
    \/ SyncNow
    \/ OnlineEvent
    \/ OfflineEvent
    \/ RetryFailedItems
    \/ \E p \in PassIds, i \in ItemIds : Begin(p, i)
    \/ \E p \in PassIds, i \in ItemIds : TransferOk(p, i)
    \/ \E p \in PassIds, i \in ItemIds : TransferFail(p, i)
    \/ \E p \in PassIds, i \in ItemIds : ReconcileRead(p, i)
    \/ \E p \in PassIds, i \in ItemIds : ReconcileWrite(p, i)
    \/ \E p \in PassIds : FinishPass(p)

Spec == Init /\ [][Next]_vars

\* The event loop runs every timer and callback that is due and every transfer
\* call returns: each pass in flight keeps taking steps.  Connectivity comes
\* back, and syncQueue keeps being invoked while a pass can start.
PassStepAt(p) ==
    /\ p \in PassIds
    /\ \/ FinishPass(p)
       \/ \E i \in ItemIds :
             Begin(p, i) \/ TransferOk(p, i) \/ TransferFail(p, i)
               \/ ReconcileRead(p, i) \/ ReconcileWrite(p, i)
StartsPass == SyncNow /\ Len(passes') > Len(passes)
Fairness ==
    /\ \A p \in 1..MaxPasses : WF_vars(PassStepAt(p))
    /\ WF_vars(OnlineEvent)
    /\ WF_vars(StartsPass)
\* the liveness check enqueues at most MaxLiveItems items
LiveNext == Next /\ Len(queue') + enq'.left <= MaxLiveItems
LiveSpec == Init /\ [][LiveNext]_vars /\ Fairness

\* ------------------------------------------------------ the error paths
\* the form is submitted and enqueueSubmission throws before it has written
\* anything: the handler's catch shows the alert
EnqueueRejected ==
    /\ enq = NoEnq
    /\ \E n \in {m \in 1..MaxItems : MayEnqueue(m)}, title \in Titles, estimate \in Estimates :
          \E files \in FileLists(n) :
             /\ SubmitGuard(title, files)
             /\ LET r == enqueueSubmission(title, files, estimate, records)
                IN /\ r.error # NoError
                   /\ records' = r.records
                   /\ enq' = [rec |-> r.recordId, left |-> 0, err |-> r.error]
    /\ UNCHANGED <<online, syncStatus, queue, passes, delivered, sw, upload, xfer>>

\* one enqueueMedia is rejected (reader.onerror or request.onerror): Promise.all
\* rejects and enqueueSubmission throws; the other writes are not cancelled
EnqueueWriteFails ==
    /\ enq.left > 0
    /\ enq' = [enq EXCEPT !.left = @ - 1, !.err = StoreError]
    /\ UNCHANGED <<online, syncStatus, records, queue, passes, delivered, sw, upload, xfer>>

\* the submit handler's finally, after enqueueSubmission has thrown
EnqueueCaught ==
    /\ enq.err # NoError /\ enq.left = 0
    /\ enq' = NoEnq
    /\ UNCHANGED <<online, syncStatus, records, queue, passes, delivered, sw, upload, xfer>>

MarkDbError(ps, p) == [ps EXCEPT ![p].dbError = TRUE]

\* db.getPendingQueueItems() of pass p is rejected instead of delivering the items
FetchRejected(p) ==
    /\ ~passes[p].rejected
    /\ DOMAIN passes[p].tasks = passes[p].fetched
    /\ \A i \in DOMAIN passes[p].tasks : Task(p, i).pc = "wait"
    /\ passes' = [passes EXCEPT ![p] = [@ EXCEPT !.tasks = [i \in {} |-> 0],
                                                 !.fetched = {},
                                                 !.dbError = TRUE,
                                                 !.rejected = TRUE]]
    /\ UNCHANGED <<online, syncStatus, records, queue, enq, delivered, sw, upload, xfer>>

\* the catch of syncQueue: notifySyncStatusChange(ERROR); throw error
RejectPass(p) ==
    /\ passes[p].rejected
    /\ syncStatus' = SYNC_STATUS.ERROR
    /\ passes' = RemovePass(passes, p)
    /\ UNCHANGED <<online, records, queue, enq, delivered, sw, upload, xfer>>

\* A store request of syncQueueItem is rejected: the write of 'uploading' (no
\* transfer is invoked), the write of 'synced' after the transfer was accepted,
\* the read or the write of the reconciliation.  The catch block takes it for
\* a failed transfer, and its own write succeeds.
StoreRejects(p, i) ==
    /\ i \in DOMAIN passes[p].tasks
    /\ Task(p, i).pc = "wait" =>
          \A j \in DOMAIN passes[p].tasks : j < i => Task(p, j).pc # "wait"
    /\ queue' = CatchUpdate(queue, i, Task(p, i).snap)
    /\ passes' = MarkDbError(Settle(p, i, FALSE), p)
    /\ delivered' = IF Task(p, i).pc = "upload"
                    THEN [delivered EXCEPT ![i] = IF @ < 2 THEN @ + 1 ELSE @]
                    ELSE delivered
    /\ UNCHANGED <<online, syncStatus, records, enq, sw, upload, xfer>>

\* the transfer has failed and the write of the catch block is rejected too:
\* syncQueueItem rejects, .catch(resolve) settles the dispatch with the error
CatchWriteRejects(p, i) ==
    /\ HasTask(p, i, "upload")
    /\ passes' = MarkDbError(Settle(p, i, FALSE), p)
    /\ UNCHANGED <<online, syncStatus, records, queue, enq, delivered, sw, upload, xfer>>

\* syncQueue is called from 'Sync Now' with no pass in flight and a status
\* subscriber throws on 'syncing': notifySyncStatusChange has assigned
\* syncStatus before it calls the listeners, and the call stands before the
\* try of syncQueue, so syncQueue rejects there
ListenerThrows ==
    /\ passes = <<>>
    /\ online
    /\ syncStatus # SYNC_STATUS.SYNCING
    /\ syncStatus' = SYNC_STATUS.SYNCING
    /\ UNCHANGED <<online, records, queue, enq, passes, delivered, sw, upload, xfer>>

\* the engine with its error paths, on at most MaxErrItems items
ErrNext ==
    \/ (\E n \in 1..MaxErrItems : EnqueueStart(n)) /\ Len(queue) + enq'.left <= MaxErrItems
    \/ EnqueueWrite
    \/ EnqueueFinish
    \/ SyncNow
    \/ OnlineEvent
    \/ OfflineEvent
    \/ RetryFailedItems
    \/ \E p \in PassIds, i \in ItemIds : Begin(p, i)
    \/ \E p \in PassIds, i \in ItemIds : TransferOk(p, i)
    \/ \E p \in PassIds, i \in ItemIds : TransferFail(p, i)
    \/ \E p \in PassIds, i \in ItemIds : ReconcileRead(p, i)
    \/ \E p \in PassIds, i \in ItemIds : ReconcileWrite(p, i)
    \/ \E p \in PassIds : FinishPass(p)
    \/ EnqueueRejected
    \/ EnqueueWriteFails
    \/ EnqueueCaught
    \/ \E p \in PassIds : FetchRejected(p)
    \/ \E p \in PassIds : RejectPass(p)
    \/ \E p \in PassIds, i \in ItemIds : StoreRejects(p, i)
    \/ \E p \in PassIds, i \in ItemIds : CatchWriteRejects(p, i)
    \/ ListenerThrows
ErrSpec == Init /\ [][ErrNext]_vars

\* the form and the passes its submissions start, with connectivity coming and
\* going: what a user does who never presses 'Sync Now'
EnqNext ==
    \/ (\E n \in 1..MaxErrItems : EnqueueStart(n)) /\ Len(queue) + enq'.left <= MaxErrItems
    \/ EnqueueWrite
    \/ EnqueueFinish
    \/ EnqueueRejected
    \/ EnqueueWriteFails
    \/ EnqueueCaught
    \/ OnlineEvent
    \/ OfflineEvent
    \/ \E p \in PassIds, i \in ItemIds : Begin(p, i)
    \/ \E p \in PassIds, i \in ItemIds : TransferOk(p, i)
    \/ \E p \in PassIds, i \in ItemIds : TransferFail(p, i)
    \/ \E p \in PassIds, i \in ItemIds : ReconcileRead(p, i)
    \/ \E p \in PassIds, i \in ItemIds : ReconcileWrite(p, i)
    \/ \E p \in PassIds : FinishPass(p)
EnqSpec == Init /\ [][EnqNext]_vars

\* ------------------------------------------------------------ the claims
\* ---- api.js: the whole-payload transfer ----

\* the responses the server gives to the upload request: a status and whether
\* the body parses as JSON (a 204 has no body)
Responses == {r \in [status : {200, 201, 204, 404, 500}, json : BOOLEAN] :
                 r.status = 204 => ~r.json}

\* response.ok: the status is in the range 200-299
Ok(response) == response.status >= 200 /\ response.status <= 299

\* handleResponse: throws for a response that is not ok, else returns
\* response.json(), which rejects when the body is not JSON
handleResponse(response) ==
    IF ~Ok(response)
    THEN [resolved |-> FALSE, error |-> ErrorMessage]
    ELSE IF response.json
    THEN [resolved |-> TRUE, error |-> NoError]
    ELSE [resolved |-> FALSE, error |-> "SyntaxError"]

\* postFormData and uploadMedia: one POST, then handleResponse
postFormData(response) == handleResponse(response)
uploadMedia(response) == postFormData(response)

\* the upload request of item i has been answered with response
Respond(p, i, response) ==
    /\ HasTask(p, i, "upload")
    /\ IF uploadMedia(response).resolved
       THEN /\ queue' = updateQueueItem(queue, i, [status |-> "synced", uploadProgress |-> 100])
            /\ passes' = [SetPc(p, i, "reconcile") EXCEPT ![p].reached = @ + 1]
       ELSE /\ queue' = CatchUpdate(queue, i, Task(p, i).snap)
            /\ passes' = Settle(p, i, FALSE)
    /\ delivered' = [delivered EXCEPT ![i] = IF Ok(response) /\ @ < 2 THEN @ + 1 ELSE @]
    /\ UNCHANGED <<online, syncStatus, records, enq, sw, upload, xfer>>

\* ---- service-worker.js: background sync of the upload requests ----

\* queue.pushRequest, queue.shiftRequest and queue.unshiftRequest of the
\* 'media-uploads' queue; the queue keeps up to MaxStored requests here.
\* shiftRequest is the head of the while loop of onSync: the loop, and with it
\* the replay, ends when no request is stored.
pushRequest(w, i) ==
    IF Len(w.stored) < MaxStored THEN [w EXCEPT !.stored = Append(@, i)] ELSE w
shiftRequest(w) ==
    IF w.stored = <<>> THEN [w EXCEPT !.replay = 0, !.running = FALSE]
    ELSE [stored |-> Tail(w.stored), replay |-> Head(w.stored), running |-> TRUE]
unshiftRequest(w, entry) == [w EXCEPT !.stored = <<entry>> \o @, !.replay = 0]

\* the upload request of item i fails in the network: fetch rejects in the
\* page, and the plugin of the route stores the request for replay
NetworkFails(p, i) ==
    /\ HasTask(p, i, "upload")
    /\ queue' = CatchUpdate(queue, i, Task(p, i).snap)
    /\ passes' = Settle(p, i, FALSE)
    /\ sw' = pushRequest(sw, i)
    /\ UNCHANGED <<online, syncStatus, records, enq, delivered, upload, xfer>>

\* the 'sync' event: onSync takes the first stored request and fetches it
SwSync ==
    /\ online
    /\ ~sw.running
    /\ sw.stored # <<>>
    /\ sw' = shiftRequest(sw)
    /\ UNCHANGED <<online, syncStatus, records, queue, enq, passes, delivered, upload, xfer>>

\* the replayed request is answered ok: SYNC_COMPLETE is posted and the loop
\* takes the next request
SwReplayOk ==
    /\ sw.replay # 0
    /\ delivered' = [delivered EXCEPT ![sw.replay] = IF @ < 2 THEN @ + 1 ELSE @]
    /\ sw' = shiftRequest([sw EXCEPT !.replay = 0])
    /\ UNCHANGED <<online, syncStatus, records, queue, enq, passes, upload, xfer>>

\* the replayed request fails: the catch puts it back at the head of the queue
SwReplayFail ==
    /\ sw.replay # 0
    /\ sw' = unshiftRequest(sw, sw.replay)
    /\ UNCHANGED <<online, syncStatus, records, queue, enq, passes, delivered, upload, xfer>>

\* unshiftRequest has resolved: the while loop takes the head of the queue
SwLoop ==
    /\ sw.running
    /\ sw.replay = 0
    /\ sw' = shiftRequest(sw)
    /\ UNCHANGED <<online, syncStatus, records, queue, enq, passes, delivered, upload, xfer>>

\* ---- main.js: the page is closed or reloaded ----

\* the page goes away with its passes and its submission in progress; initApp
\* runs again: initDatabase, registerServiceWorker, initSync, initUI.  The
\* stores and the service worker's queue are kept.
Restart ==
    /\ passes # <<>> \/ enq # NoEnq \/ syncStatus # SYNC_STATUS.IDLE
    /\ passes' = <<>>
    /\ enq' = NoEnq
    /\ syncStatus' = SYNC_STATUS.IDLE
    /\ UNCHANGED <<online, records, queue, delivered, sw, upload, xfer>>

\* the page with its service worker and its restarts, on at most MaxBgItems
\* items
BgNext ==
    \/ (\E n \in 1..MaxBgItems : EnqueueStart(n)) /\ Len(queue) + enq'.left <= MaxBgItems
    \/ EnqueueWrite
    \/ EnqueueFinish
    \/ SyncNow
    \/ OnlineEvent
    \/ OfflineEvent
    \/ RetryFailedItems
    \/ \E p \in PassIds, i \in ItemIds : Begin(p, i)
    \/ \E p \in PassIds, i \in ItemIds, response \in Responses : Respond(p, i, response)
    \/ \E p \in PassIds, i \in ItemIds : NetworkFails(p, i)
    \/ \E p \in PassIds, i \in ItemIds : ReconcileRead(p, i)
    \/ \E p \in PassIds, i \in ItemIds : ReconcileWrite(p, i)
    \/ \E p \in PassIds : FinishPass(p)
    \/ SwSync
    \/ SwReplayOk
    \/ SwReplayFail
    \/ SwLoop
    \/ Restart
BgSpec == Init /\ [][BgNext]_vars

\* ---- api.js: the chunked transfer ----

\* sizes are counted in units of 2.5 MiB: CHUNK_SIZE is 5 MiB and
\* LARGE_FILE_THRESHOLD 10 MiB
CHUNK_SIZE == 2
LARGE_FILE_THRESHOLD == 4

\* let retries = 3
ChunkRetries == 3

\* the catch of a chunk's try giving up one failure late
AfterChunkFailureOneMore(retries) == IF retries = 0 THEN "failed" ELSE "backoff"

\* the catch of a chunk's try, retries being the count before it: retries--,
\* then throw if retries === 0, else back off and try again
AfterChunkFailure(retries) == IF retries - 1 = 0 THEN "failed" ELSE "backoff"

\* the uploadId the client makes up and the upload_id values the server may
\* answer the init request with
ClientUploadId == 1
UploadIds == {1, 2}

\* the sizes of the files that go the chunked way: file.size > LARGE_FILE_THRESHOLD
ChunkedSizes == {size \in 0..MaxChunkedSize : size > LARGE_FILE_THRESHOLD}

\* the number of chunks rounded down
TotalChunksFloor(fileSize) == fileSize \div CHUNK_SIZE

\* Math.ceil(fileSize / CHUNK_SIZE)
TotalChunks(fileSize) == (fileSize + CHUNK_SIZE - 1) \div CHUNK_SIZE

\* start = chunkIndex * CHUNK_SIZE, end = Math.min(start + CHUNK_SIZE, fileSize):
\* the chunk is file.slice(start, end)
ChunkStart(chunkIndex) == chunkIndex * CHUNK_SIZE
ChunkEnd(chunkIndex, fileSize) ==
    IF ChunkStart(chunkIndex) + CHUNK_SIZE < fileSize
    THEN ChunkStart(chunkIndex) + CHUNK_SIZE
    ELSE fileSize

\* the chunk request with the uploadId of the client in place of upload_id
ChunkRequestOwnId(u, chunkIndex) ==
    [kind |-> "chunk", index |-> chunkIndex, upload_id |-> ClientUploadId,
     start |-> ChunkStart(chunkIndex), end |-> ChunkEnd(chunkIndex, u.fileSize)]

\* the chunk request: chunk, upload_id, chunk_index, total_chunks
ChunkRequest(u, chunkIndex) ==
    [kind |-> "chunk", index |-> chunkIndex, upload_id |-> u.upload_id,
     start |-> ChunkStart(chunkIndex), end |-> ChunkEnd(chunkIndex, u.fileSize)]

\* the finalize request: upload_id, submission_id
FinalizeRequest(u) == [kind |-> "finalize", index |-> 0, upload_id |-> u.upload_id]

\* a request is issued: it is in flight and in the log of requests
Send(u, request) == [u EXCEPT !.req = request, !.sent = Append(@, request)]

\* the for loop at chunkIndex: the first try of that chunk with retries = 3, or
\* the finalize request when chunkIndex has reached totalChunks
EnterChunk(u, chunkIndex) ==
    IF chunkIndex < u.totalChunks
    THEN Send([u EXCEPT !.phase = "chunk", !.chunkIndex = chunkIndex, !.retries = ChunkRetries],
              ChunkRequest(u, chunkIndex))
    ELSE Send([u EXCEPT !.phase = "finalize", !.chunkIndex = chunkIndex], FinalizeRequest(u))

\* uploadMediaChunked is called: totalChunks, uploadId, the init request
UploadStart(fileSize) ==
    /\ upload.phase = "idle"
    /\ upload' = Send([upload EXCEPT !.phase = "init", !.fileSize = fileSize,
                                       !.totalChunks = TotalChunks(fileSize)],
                       [kind |-> "init", index |-> 0, upload_id |-> ClientUploadId])
    /\ UNCHANGED <<online, syncStatus, records, queue, enq, passes, delivered, sw, xfer>>

\* the init request is answered: { upload_id, chunk_url } = initResponse
InitOk(id) ==
    /\ upload.phase = "init"
    /\ upload' = EnterChunk([upload EXCEPT !.upload_id = id], 0)
    /\ UNCHANGED <<online, syncStatus, records, queue, enq, passes, delivered, sw, xfer>>

\* the init request fails: post rejects and so does uploadMediaChunked
InitFail ==
    /\ upload.phase = "init"
    /\ upload' = [upload EXCEPT !.phase = "failed", !.req = NoRequest]
    /\ UNCHANGED <<online, syncStatus, records, queue, enq, passes, delivered, sw, xfer>>

\* the chunk request is answered ok: success = true, bytesUploaded = end,
\* onProgress(bytesUploaded, fileSize), next chunk
ChunkOk ==
    /\ upload.phase = "chunk"
    /\ upload' = EnterChunk([upload EXCEPT !.acked = @ \cup {upload.chunkIndex},
                                             !.reported = Append(@, upload.req.end)],
                             upload.chunkIndex + 1)
    /\ UNCHANGED <<online, syncStatus, records, queue, enq, passes, delivered, sw, xfer>>

\* the chunk request fails or is answered not ok: retries--, then throw when
\* retries === 0, else wait 2^(3 - retries) seconds
ChunkFail ==
    /\ upload.phase = "chunk"
    /\ upload' = [upload EXCEPT !.retries = @ - 1,
                                  !.req = NoRequest,
                                  !.phase = AfterChunkFailure(upload.retries)]
    /\ UNCHANGED <<online, syncStatus, records, queue, enq, passes, delivered, sw, xfer>>

\* the backoff timer has fired: the while loop tries the same chunk again
BackoffOver ==
    /\ upload.phase = "backoff"
    /\ upload' = Send([upload EXCEPT !.phase = "chunk"], ChunkRequest(upload, upload.chunkIndex))
    /\ UNCHANGED <<online, syncStatus, records, queue, enq, passes, delivered, sw, xfer>>

\* the finalize request is answered: its response is the result
FinalizeOk ==
    /\ upload.phase = "finalize"
    /\ upload' = [upload EXCEPT !.phase = "done", !.req = NoRequest]
    /\ UNCHANGED <<online, syncStatus, records, queue, enq, passes, delivered, sw, xfer>>

\* the finalize request fails: uploadMediaChunked rejects
FinalizeFail ==
    /\ upload.phase = "finalize"
    /\ upload' = [upload EXCEPT !.phase = "failed", !.req = NoRequest]
    /\ UNCHANGED <<online, syncStatus, records, queue, enq, passes, delivered, sw, xfer>>

\* one call of uploadMediaChunked for a file of any size that goes the
\* chunked way
ChunkNext ==
    \/ \E fileSize \in ChunkedSizes : UploadStart(fileSize)
    \/ \E id \in UploadIds : InitOk(id)
    \/ InitFail
    \/ ChunkOk
    \/ ChunkFail
    \/ BackoffOver
    \/ FinalizeOk
    \/ FinalizeFail
ChunkSpec == Init /\ [][ChunkNext]_vars

\* ---- db.js: a Record is deleted ----

\* db.deleteRecord(id): the Record is gone from the store, its Queue Items stay
DeleteRecord(id) ==
    /\ id \in RecordIds
    /\ ~records[id].deleted
    /\ records' = [records EXCEPT ![id].deleted = TRUE]
    /\ UNCHANGED <<online, syncStatus, queue, enq, passes, delivered, sw, upload, xfer>>

\* the engine with Records being deleted beside it, on at most MaxDelItems items
DelNext ==
    \/ (\E n \in 1..MaxDelItems : EnqueueStart(n)) /\ Len(queue) + enq'.left <= MaxDelItems
    \/ EnqueueWrite
    \/ EnqueueFinish
    \/ SyncNow
    \/ OnlineEvent
    \/ OfflineEvent
    \/ RetryFailedItems
    \/ \E p \in PassIds, i \in ItemIds : Begin(p, i)
    \/ \E p \in PassIds, i \in ItemIds : TransferOk(p, i)
    \/ \E p \in PassIds, i \in ItemIds : TransferFail(p, i)
    \/ \E p \in PassIds, i \in ItemIds : ReconcileRead(p, i)
    \/ \E p \in PassIds, i \in ItemIds : ReconcileWrite(p, i)
    \/ \E p \in PassIds : FinishPass(p)
    \/ \E id \in RecordIds : DeleteRecord(id)
DelSpec == Init /\ [][DelNext]_vars

\* ---- sync.js and api.js: the progress of one item ----

\* shouldUseChunkedUpload with the threshold included
shouldUseChunkedFromThreshold(fileSize) == fileSize >= LARGE_FILE_THRESHOLD

\* shouldUseChunkedUpload: file.size > LARGE_FILE_THRESHOLD
shouldUseChunkedUpload(fileSize) == fileSize > LARGE_FILE_THRESHOLD

\* Math.round((bytesUploaded / totalBytes) * 100): the nearest integer, a half
\* rounded up
Progress(bytesUploaded, totalBytes) == (200 * bytesUploaded + totalBytes) \div (2 * totalBytes)

\* the syncQueueItem calls in flight that have written 'uploading'
Attempting(x, r) == x.runs[r].pc \in {"chunked", "whole", "written"}

\* enqueueSubmission and enqueueMedia for one file: fileSize, useChunked,
\* uploadProgress 0, bytesUploaded 0
XEnqueue(fileSize) ==
    /\ xfer.status = "none"
    /\ xfer' = [xfer EXCEPT !.status = "pending",
                            !.fileSize = fileSize,
                            !.useChunked = shouldUseChunkedUpload(fileSize)]
    /\ UNCHANGED <<online, syncStatus, records, queue, enq, passes, delivered, sw, upload>>

\* a pass fetches the item while it is 'pending' and holds it as fetched; a
\* second pass in flight may do the same before the first has dispatched it
XFetch(r) ==
    /\ xfer.status = "pending"
    /\ xfer.runs[r].pc = "none"
    /\ xfer.fetches < MaxFetches
    /\ xfer' = [xfer EXCEPT !.fetches = @ + 1,
                            !.runs[r] = [pc |-> "wait", useChunked |-> xfer.useChunked, next |-> 0]]
    /\ UNCHANGED <<online, syncStatus, records, queue, enq, passes, delivered, sw, upload>>

\* syncQueueItem: status 'uploading', uploadProgress 0, bytesUploaded 0, then
\* useChunked = queueItem.useChunked || shouldUseChunkedUpload(file) and the
\* call of uploadMediaChunked or uploadMedia
XBegin(r) ==
    /\ xfer.runs[r].pc = "wait"
    /\ LET useChunked == xfer.runs[r].useChunked \/ shouldUseChunkedUpload(xfer.fileSize)
       IN xfer' = [xfer EXCEPT !.status = "uploading",
                               !.uploadProgress = 0,
                               !.bytesUploaded = 0,
                               !.runs[r].pc = IF useChunked THEN "chunked" ELSE "whole"]
    /\ UNCHANGED <<online, syncStatus, records, queue, enq, passes, delivered, sw, upload>>

\* a chunk has succeeded: onProgress(end, fileSize) writes uploadProgress and
\* bytesUploaded
XChunkOk(r) ==
    /\ xfer.runs[r].pc = "chunked"
    /\ xfer.runs[r].next < TotalChunks(xfer.fileSize)
    /\ LET bytesUploaded == ChunkEnd(xfer.runs[r].next, xfer.fileSize)
       IN xfer' = [xfer EXCEPT !.uploadProgress = Progress(bytesUploaded, xfer.fileSize),
                               !.bytesUploaded = bytesUploaded,
                               !.runs[r].next = @ + 1]
    /\ UNCHANGED <<online, syncStatus, records, queue, enq, passes, delivered, sw, upload>>

\* uploadMedia has resolved: uploadProgress 100, bytesUploaded file.size
XWholeOk(r) ==
    /\ xfer.runs[r].pc = "whole"
    /\ xfer' = [xfer EXCEPT !.uploadProgress = 100,
                            !.bytesUploaded = xfer.fileSize,
                            !.runs[r].pc = "written"]
    /\ UNCHANGED <<online, syncStatus, records, queue, enq, passes, delivered, sw, upload>>

\* the transfer is over (finalize answered, or the write after uploadMedia
\* done): status 'synced', uploadProgress 100
XSynced(r) ==
    /\ \/ xfer.runs[r].pc = "written"
       \/ xfer.runs[r].pc = "chunked" /\ xfer.runs[r].next = TotalChunks(xfer.fileSize)
    /\ xfer' = [xfer EXCEPT !.status = "synced", !.uploadProgress = 100, !.runs[r] = NoRun]
    /\ UNCHANGED <<online, syncStatus, records, queue, enq, passes, delivered, sw, upload>>

\* the transfer has failed: the catch block writes status 'pending' and
\* uploadProgress 0
XFail(r) ==
    /\ xfer.runs[r].pc \in {"chunked", "whole"}
    /\ xfer' = [xfer EXCEPT !.status = "pending", !.uploadProgress = 0, !.runs[r] = NoRun]
    /\ UNCHANGED <<online, syncStatus, records, queue, enq, passes, delivered, sw, upload>>

\* one item of any size up to MaxChunkedSize, dispatched up to MaxFetches
\* times by up to MaxRuns passes in flight
ItemNext ==
    \/ \E fileSize \in 1..MaxChunkedSize : XEnqueue(fileSize)
    \/ \E r \in RunIds : XFetch(r)
    \/ \E r \in RunIds : XBegin(r)
    \/ \E r \in RunIds : XChunkOk(r)
    \/ \E r \in RunIds : XWholeOk(r)
    \/ \E r \in RunIds : XSynced(r)
    \/ \E r \in RunIds : XFail(r)
ItemSpec == Init /\ [][ItemNext]_vars

\* C1: at most one sync pass is in flight at any time, whatever the interleaving
\* of syncQueue invocations with 'online' and 'offline' events.
C1_SingleFlight == Len(passes) <= 1

\* C2: while a call of syncQueue that started a pass has not completed and no
\* connectivity event has happened since, a second call of syncQueue starts no
\* pass (so it changes no item) and returns { synced: 0, failed: 0 }.
C2_SecondCallIsNoOp ==
    \A p \in PassIds :
        (online /\ ~passes[p].connEvt) =>
            LET r == syncQueue(online, syncStatus, passes, queue)
            IN r.ret = ZeroCounts /\ r.passes = passes /\ r.syncStatus = syncStatus

\* C3: in every reachable state a Record whose synced flag is true has every
\* Queue Item that refers to it in status 'synced'.
C3_SyncedRecordHasSyncedChildren ==
    \A r \in RecordIds : records[r].synced => AllSynced(queue, r)

\* C4: immediately after every completed call of checkAndUpdateRecordSyncStatus
\* for a Record, its synced flag is true iff every child item is 'synced'.
ReconcileCompletes(p, i) ==
    \/ ReconcileWrite(p, i)
    \/ ReconcileRead(p, i) /\ ~AllSynced(queue, queue[i].submissionId)
C4_ReconcileIff ==
    [][\A p \in PassIds, i \in ItemIds :
          ReconcileCompletes(p, i) =>
              (records'[queue[i].submissionId].synced
                  <=> AllSynced(queue', queue[i].submissionId))]_vars

\* C5: every Queue Item has 0 <= attempts <= maxAttempts in every reachable state.
C5_AttemptsWithinBounds ==
    \A i \in ItemIds : 0 <= queue[i].attempts /\ queue[i].attempts <= queue[i].maxAttempts
\* an item has used up its attempts, and another attempt of some item is under way
C5_Witness ==
    \E i \in ItemIds :
        /\ queue[i].attempts = queue[i].maxAttempts
        /\ queue[i].maxAttempts = DefaultMaxAttempts
        /\ \E j \in ItemIds : queue[j].status = "uploading"

\* C6: a Queue Item in status 'failed' has attempts == maxAttempts.
C6_FailedMeansExhausted ==
    \A i \in ItemIds : queue[i].status = "failed" => queue[i].attempts = queue[i].maxAttempts
\* an item has failed for good while a sibling has been synced
C6_Witness ==
    \E i, j \in ItemIds :
        /\ queue[i].status = "failed"
        /\ queue[j].status = "synced"
        /\ queue[i].submissionId = queue[j].submissionId

\* C7: every change of an item's status is pending->uploading, uploading->synced,
\* uploading->pending, uploading->failed or failed->pending.
StatusChanges ==
    {<<"pending", "uploading">>, <<"uploading", "synced">>, <<"uploading", "pending">>,
     <<"uploading", "failed">>, <<"failed", "pending">>}
C7_StatusTransitions ==
    [][\A i \in ItemIds :
          queue'[i].status # queue[i].status =>
              <<queue[i].status, queue'[i].status>> \in StatusChanges]_vars

\* C8: no item is handed to the Transfer Client after it has reached 'synced',
\* and the payload of an item is transferred successfully at most once.
C8_NoTransferAfterSynced ==
    [][/\ \A p \in PassIds, i \in ItemIds : Begin(p, i) => delivered[i] = 0
       /\ \A i \in DOMAIN delivered' : delivered'[i] <= 1]_vars

C10_RetryResetsExhausted ==
    \A i \in ItemIds :
        (queue[i].status = "failed" /\ queue[i].attempts = queue[i].maxAttempts) =>
            LET q2 == ResetAll(queue, FailedItems(queue))
            IN /\ q2[i].status = "pending"
               /\ q2[i].error = NoError
               /\ i \in getPendingQueueItems(q2)

\* C11: once enqueueSubmission has failed on a rejected write of a Queue Item,
\* no Record is left with fewer child Queue Items than the files supplied.
C11_NoPartialSubmission ==
    (enq.err = StoreError /\ enq.left = 0) =>
        Cardinality(getQueueItemsBySubmissionId(queue, enq.rec)) >= records[enq.rec].nFiles

\* C12: when the total size of the files exceeds the available storage,
\* enqueueSubmission fails with the quota error, persists no Record and no
\* Queue Item and starts no pass.
C12_StorageExhaustedPersistsNothing ==
    [][(enq = NoEnq /\ enq' # NoEnq) =>
          /\ \A n \in 1..MaxItems, estimate \in Estimates : \A files \in FileLists(n) :
                TotalSize(files) > getStorageQuota(estimate).available =>
                    LET r == enqueueSubmission("title", files, estimate, records)
                    IN r.error = QuotaExceededError /\ r.records = records
          /\ enq'.err = QuotaExceededError =>
                /\ enq'.rec = 0 /\ enq'.left = 0
                /\ UNCHANGED <<records, queue, passes, syncStatus, xfer>>]_vars
\* a submission has been refused for lack of storage while another one is queued
C12_Witness ==
    /\ enq.err = QuotaExceededError
    /\ Len(records) > 0
    /\ \E i \in ItemIds : queue[i].status = "pending"

\* C13: enqueueSubmission called with an empty title is rejected with a
\* validation error and persists no Record.
C13_EmptyTitleRejected ==
    \A n \in 1..MaxItems, estimate \in Estimates : \A files \in FileLists(n) :
        LET r == enqueueSubmission("", files, estimate, records)
        IN r.error \notin {NoError, QuotaExceededError} /\ r.records = records

\* C14: a failed transfer is recorded on the item (status, attempts, error) and
\* counted in the failed count of its pass; a call of syncQueue rejects only
\* when no transfer of it has had any outcome.
C14_TransferFailureIsAbsorbed ==
    [][/\ \A p \in PassIds, i \in ItemIds :
             TransferFail(p, i) =>
                 /\ queue'[i].status \in {"pending", "failed"}
                 /\ queue'[i].attempts = Task(p, i).snap + 1
                 /\ queue'[i].error = ErrorMessage
                 /\ passes'[p].failed = passes[p].failed + 1
                 /\ ~passes'[p].rejected
       /\ \A p \in PassIds :
             RejectPass(p) =>
                 passes[p].failed = 0 /\ passes[p].synced = 0 /\ passes[p].reached = 0]_vars
\* a pass whose store requests have all succeeded has counted a failed transfer
\* of an item that is 'pending' again with the error on it
C14_Witness ==
    \E p \in PassIds, i \in ItemIds :
        /\ passes[p].failed > 0 /\ ~passes[p].dbError
        /\ i \in passes[p].fetched
        /\ queue[i].status = "pending" /\ queue[i].error = ErrorMessage

\* C15: a pass in which a store request was rejected ends in a rejection of
\* syncQueue, not in returned counts; an enqueue in which a write was rejected
\* does not complete successfully.
C15_StoreFailurePropagates ==
    [][/\ \A p \in PassIds : FinishPass(p) => ~passes[p].dbError
       /\ EnqueueFinish => enq.err = NoError]_vars

\* C16: while connectivity is unavailable a call of syncQueue returns
\* { synced: 0, failed: 0 }, starts no pass and leaves the sync status as it is.
C16_OfflineSyncIsNoOp ==
    ~online =>
        syncQueue(online, syncStatus, passes, queue)
            = [syncStatus |-> syncStatus, passes |-> passes, ret |-> ZeroCounts]
\* offline with an item pending, a pass still in flight and no 'syncing' status
C16_Witness ==
    /\ ~online /\ passes # <<>> /\ syncStatus # SYNC_STATUS.SYNCING
    /\ \E i \in ItemIds : queue[i].status = "pending"

\* C17: a pass that starts publishes 'syncing' before it touches any item; when
\* its dispatches have settled it publishes 'success' if every item it fetched
\* was synced (none, for an empty pass) and 'error' otherwise, and is over.
C17_PublishedStatus ==
    [][/\ Len(passes') > Len(passes) =>
             /\ syncStatus' = SYNC_STATUS.SYNCING
             /\ queue' = queue
             /\ \A i \in DOMAIN passes'[Len(passes')].tasks :
                    passes'[Len(passes')].tasks[i].pc = "wait"
       /\ \A p \in PassIds :
             FinishPass(p) =>
                 /\ syncStatus' = IF passes[p].reached = Cardinality(passes[p].fetched)
                                  THEN SYNC_STATUS.SUCCESS ELSE SYNC_STATUS.ERROR
                 /\ Len(passes') = Len(passes) - 1]_vars
\* a pass has ended with 'error' after syncing one item and failing on another
C17_Witness ==
    /\ passes = <<>> /\ syncStatus = SYNC_STATUS.ERROR
    /\ \E i, j \in ItemIds :
          /\ queue[i].status = "synced"
          /\ queue[j].status = "pending" /\ queue[j].error = ErrorMessage

C19_EnqueueWrites ==
    [][/\ Len(records') > Len(records) =>
             /\ Len(records') = Len(records) + 1
             /\ ~records'[Len(records')].synced
             /\ enq'.rec = Len(records') /\ enq'.left = records'[Len(records')].nFiles
       /\ Len(queue') > Len(queue) =>
             /\ Len(queue') = Len(queue) + 1
             /\ \A i \in ItemIds : queue'[i] = queue[i]
             /\ LET item == queue'[Len(queue')]
                IN /\ item.submissionId = enq.rec
                   /\ item.status = "pending"
                   /\ item.attempts = 0
                   /\ item.error = NoError
                   /\ item.uploadProgress = 0
       /\ (enq.rec # 0 /\ enq.err = NoError /\ enq' = NoEnq) =>
             Cardinality(getQueueItemsBySubmissionId(queue', enq.rec))
                 = records'[enq.rec].nFiles]_vars
\* a submission of two files is complete and still waiting for its first pass
C19_Witness ==
    /\ enq = NoEnq
    /\ \E r \in RecordIds :
          /\ records[r].nFiles = 2
          /\ Cardinality(getQueueItemsBySubmissionId(queue, r)) = 2
          /\ \A i \in getQueueItemsBySubmissionId(queue, r) :
                 queue[i].status = "pending" /\ queue[i].attempts = 0

\* C20: while connectivity stays unavailable no pass starts and no item that
\* is waiting is picked up; the 'online' event starts a pass on every pending
\* item; and a pass that ends without a failure leaves every item it fetched
\* 'synced' and, where it fetched all the items of a Record, the Record synced.
Waiting(q, ps, i) ==
    q[i].status = "pending" /\ \A p \in DOMAIN ps : i \notin DOMAIN ps[p].tasks
C20_OfflineThenOnline ==
    [][/\ (~online /\ ~online') =>
             /\ Len(passes') <= Len(passes)
             /\ \A i \in ItemIds : Waiting(queue, passes, i) => Waiting(queue', passes', i)
       /\ (~online /\ online') =>
             /\ Len(passes') = Len(passes) + 1
             /\ passes'[Len(passes')].fetched = getPendingQueueItems(queue)
       /\ \A p \in PassIds :
             (FinishPass(p) /\ passes[p].failed = 0) =>
                 \A i \in passes[p].fetched :
                     /\ queue'[i].status = "synced"
                     /\ getQueueItemsBySubmissionId(queue', queue'[i].submissionId)
                            \subseteq passes[p].fetched
                          => records'[queue'[i].submissionId].synced]_vars

\* C21: for a Record whose two or more items are all dispatched by one pass,
\* the synced flag is written to true once: by the reconciliation that finds
\* it false and every sibling 'synced'.
C21_FlagWrittenOnce ==
    [][\A p \in PassIds, i \in ItemIds :
          LET siblings == getQueueItemsBySubmissionId(queue, queue[i].submissionId)
          IN (/\ ReconcileWrite(p, i)
              /\ siblings \subseteq passes[p].fetched
              /\ Cardinality(siblings) = records[queue[i].submissionId].nFiles
              /\ Cardinality(siblings) >= 2) =>
                 /\ ~records[queue[i].submissionId].synced
                 /\ AllSynced(queue, queue[i].submissionId)]_vars

\* C22: a failed transfer puts the item back to 'pending' while its attempts are
\* below maxAttempts and makes it 'failed' when they reach it, with a non-empty
\* error message; an item that is 'failed' is never dispatched again.
C22_ExhaustionPath ==
    [][\A p \in PassIds, i \in ItemIds :
          /\ TransferFail(p, i) =>
                /\ queue'[i].status =
                      IF queue'[i].attempts < queue'[i].maxAttempts THEN "pending" ELSE "failed"
                /\ queue'[i].error \notin {NoError, ""}
          /\ Begin(p, i) => queue[i].status # "failed"]_vars

\* C26: dispatching an item writes 'uploading' with uploadProgress 0 and raises
\* its attempts by one before the transfer is tried, and the outcome of the
\* transfer leaves the counter there: one attempt adds exactly one.
C26_OneAttemptAddsOne ==
    [][\A p \in PassIds, i \in ItemIds :
          /\ Begin(p, i) =>
                /\ queue'[i].attempts = queue[i].attempts + 1
                /\ queue'[i].status = "uploading"
                /\ queue'[i].uploadProgress = 0
          /\ (TransferOk(p, i) \/ TransferFail(p, i)) =>
                queue'[i].attempts = queue[i].attempts]_vars

\* C25: reconciling a Record twice in a row, its items unchanged in between,
\* leaves the synced flag as one reconciliation leaves it.
C25_ReconcileIdempotent ==
    \A submissionId \in DOMAIN records :
        LET once == checkAndUpdateRecordSyncStatus(records, queue, submissionId)
            twice == checkAndUpdateRecordSyncStatus(once, queue, submissionId)
        IN twice = once

\* a Record, not yet flagged, whose items are all 'synced': the first
\* reconciliation sets the flag
C25_Witness ==
    \E submissionId \in DOMAIN records :
        /\ ~records[submissionId].synced
        /\ getQueueItemsBySubmissionId(queue, submissionId) # {}
        /\ AllSynced(queue, submissionId)
        /\ checkAndUpdateRecordSyncStatus(records, queue, submissionId)[submissionId].synced

\* the store with the attempts counter of its 'failed' items set to a
RetryStore(a) ==
    [i \in DOMAIN queue |->
        IF queue[i].status = "failed" THEN [queue[i] EXCEPT !.attempts = a] ELSE queue[i]]

C23_BackgroundSharesGuard == sw.replay # 0 => passes = <<>>

\* C24: on the whole-payload path the item becomes 'synced' exactly when its
\* upload request is answered with a 2xx status, whatever the body; a network
\* failure is a transfer failure.
C24_SuccessIffOk ==
    [][\A p \in PassIds, i \in ItemIds :
          /\ \A response \in Responses :
                Respond(p, i, response) => (queue'[i].status = "synced" <=> Ok(response))
          /\ NetworkFails(p, i) => queue'[i].status \in {"pending", "failed"}]_vars

\* an item left 'uploading' that no pass in flight holds
Orphan(i) ==
    /\ i \in DOMAIN queue
    /\ queue[i].status = "uploading"
    /\ \A p \in PassIds : i \notin DOMAIN passes[p].tasks

\* C28: a pass started after the page has restarted takes up the items the
\* restart left in 'uploading'.
C28_RestartResumesUploading ==
    [][\A i \in ItemIds :
          (Orphan(i) /\ Len(passes') > Len(passes)) =>
              i \in passes'[Len(passes')].fetched]_vars

\* the number of times chunk k has been sent
TimesSent(k) ==
    Cardinality({n \in DOMAIN upload.sent :
                    upload.sent[n].kind = "chunk" /\ upload.sent[n].index = k})

\* C29: the requests of a chunked transfer go out in the order init, chunk 0,
\* chunk 1, ..., finalize: a chunk is sent only when every chunk before it has
\* succeeded, finalize only when every chunk has, and each of them carries the
\* upload_id the init request was answered with.
C29_ChunkOrder ==
    [][upload'.sent # upload.sent =>
          LET request == upload'.sent[Len(upload'.sent)]
          IN /\ upload'.sent = Append(upload.sent, request)
             /\ request.kind = "init" <=> upload.sent = <<>>
             /\ upload.sent # <<>> => upload.sent[Len(upload.sent)].kind # "finalize"
             /\ request.kind = "chunk" =>
                   /\ request.index \in 0..(upload'.totalChunks - 1)
                   /\ upload'.acked = 0..(request.index - 1)
                   /\ request.upload_id = upload'.upload_id
             /\ request.kind = "finalize" =>
                   /\ upload'.acked = 0..(upload'.totalChunks - 1)
                   /\ request.upload_id = upload'.upload_id
             /\ request.kind # "init" => upload'.upload_id = upload.upload_id
                                          \/ upload.phase = "init"]_vars

\* a transfer of three chunks or more has been finalized with an upload_id
\* that is not the one the client made up, a chunk having been retried
C29_Witness ==
    /\ upload.phase = "done"
    /\ upload.totalChunks >= 3
    /\ upload.upload_id # ClientUploadId
    /\ \E k \in 0..(upload.totalChunks - 1) : TimesSent(k) > 1

\* C30: a chunk is sent at most 3 times; after the third try of a chunk has
\* failed the transfer has failed and no request follows; the chunks are sent
\* in nondecreasing index order, so a failure never sends an earlier chunk again.
C30_ChunkRetries ==
    /\ \A k \in 0..(upload.totalChunks - 1) :
          /\ TimesSent(k) <= 3
          /\ (TimesSent(k) = 3 /\ k \notin upload.acked) =>
                /\ upload.sent[Len(upload.sent)] = ChunkRequest(upload, k)
                /\ upload.req = NoRequest => upload.phase = "failed"
    /\ \A m, n \in DOMAIN upload.sent :
          (m < n /\ upload.sent[m].kind = "chunk" /\ upload.sent[n].kind = "chunk") =>
              upload.sent[m].index <= upload.sent[n].index
    /\ upload.phase = "failed" => upload.req = NoRequest

\* the third try of a chunk after the first one has failed, an earlier chunk
\* having needed two tries
C30_Witness ==
    /\ upload.phase = "failed"
    /\ \E k \in 1..(upload.totalChunks - 1) :
          /\ TimesSent(k) = 3
          /\ k \notin upload.acked
          /\ TimesSent(k - 1) = 2

\* C38: whenever no pass is in flight, no Queue Item is 'uploading'.
C38_NoUploadingAtRest ==
    passes = <<>> => \A i \in ItemIds : queue[i].status # "uploading"

\* C40: a Queue Item that is 'synced' has no error: the success of an attempt
\* clears the message an earlier failed attempt has recorded.
C40_SyncedHasNoError ==
    \A i \in ItemIds : queue[i].status = "synced" => queue[i].error = NoError

\* C39: when no pass is running the published status is not 'syncing', however
\* the last pass has ended, so a call of syncQueue is never refused as
\* 'already in progress' then.
C39_NotLeftSyncing == passes = <<>> => syncStatus # SYNC_STATUS.SYNCING

\* C34: a Record that has no Queue Item is not synced, and a reconciliation
\* never writes the flag of such a Record.
C34_NoChildrenNotSynced ==
    /\ \A submissionId \in RecordIds :
          records[submissionId].synced =>
              getQueueItemsBySubmissionId(queue, submissionId) # {}
    /\ \A p \in PassIds, i \in ItemIds :
          HasTask(p, i, "recwrite") =>
              getQueueItemsBySubmissionId(queue, queue[i].submissionId) # {}

\* a Record without any item stands beside a Record that a reconciliation
\* has marked synced
C34_Witness ==
    \E a, b \in RecordIds :
        /\ getQueueItemsBySubmissionId(queue, a) = {}
        /\ ~records[a].synced
        /\ records[b].synced
        /\ AllSynced(queue, b)

\* C36: when the fetch of a replayed request fails, the request is put back
\* for a later sync and the replay ends; the same replay does not fetch it
\* again.
C36_ReplayEndsOnFailure ==
    [][SwReplayFail => (~sw'.running /\ sw'.stored = <<sw.replay>> \o sw.stored)]_vars

\* C35: when the Record of an item is gone by the time the item's transfer has
\* succeeded, the reconciliation changes nothing: the item stays 'synced' and
\* its dispatch is counted as synced by the pass.
C35_MissingParentIsNoOp ==
    [][\A p \in PassIds, i \in ItemIds :
          (ReconcileWrite(p, i) /\ records[queue[i].submissionId].deleted) =>
              /\ queue'[i] = queue[i]
              /\ queue'[i].status = "synced"
              /\ passes'[p].synced = passes[p].synced + 1
              /\ passes'[p].failed = passes[p].failed]_vars

\* the least number of chunks of size c that cover size bytes, and the
\* smaller of two numbers
Ceil(size, c) == CHOOSE n \in 0..size : n * c >= size /\ (n - 1) * c < size
Min(a, b) == IF a <= b THEN a ELSE b

\* C31: a chunked transfer of a file of size S > 0 has ceil(S / C) chunks,
\* chunk i covers the bytes from i*C to min((i+1)*C, S), the last chunk has
\* S - C*(totalChunks - 1) bytes, every chunk is sent before the transfer is
\* finalized, and the bytesUploaded reported after chunk i is min((i+1)*C, S).
C31_ChunkArithmetic ==
    /\ \A size \in 1..MaxChunkedSize :
          LET n == TotalChunks(size)
          IN /\ n = Ceil(size, CHUNK_SIZE)
             /\ ChunkEnd(n - 1, size) - ChunkStart(n - 1) = size - CHUNK_SIZE * (n - 1)
             /\ \A i \in 0..(n - 1) :
                   /\ ChunkStart(i) = i * CHUNK_SIZE
                   /\ ChunkEnd(i, size) = Min((i + 1) * CHUNK_SIZE, size)
                   /\ ChunkStart(i) < ChunkEnd(i, size)
    /\ upload.phase # "idle" => upload.totalChunks = Ceil(upload.fileSize, CHUNK_SIZE)
    /\ \A n \in DOMAIN upload.sent :
          upload.sent[n].kind = "chunk" =>
              /\ upload.sent[n].start = upload.sent[n].index * CHUNK_SIZE
              /\ upload.sent[n].end = Min((upload.sent[n].index + 1) * CHUNK_SIZE, upload.fileSize)
    /\ Len(upload.reported) = Cardinality(upload.acked)
    /\ \A k \in DOMAIN upload.reported :
          upload.reported[k] = Min(k * CHUNK_SIZE, upload.fileSize)
    /\ upload.phase \in {"finalize", "done"} =>
          upload.acked = 0..(Ceil(upload.fileSize, CHUNK_SIZE) - 1)

\* a file whose size is not a multiple of the chunk size has been transferred:
\* the last report is the size of the file
C31_Witness ==
    /\ upload.phase = "done"
    /\ upload.fileSize % CHUNK_SIZE # 0
    /\ Len(upload.reported) = upload.totalChunks
    /\ upload.reported[Len(upload.reported)] = upload.fileSize

\* C32: the progress fields stored on a Queue Item always satisfy
\* uploadProgress = round(bytesUploaded / fileSize * 100), with uploadProgress
\* in 0..100 and bytesUploaded in 0..fileSize.
C32_ProgressFormula ==
    xfer.status # "none" =>
        /\ xfer.uploadProgress = Progress(xfer.bytesUploaded, xfer.fileSize)
        /\ xfer.uploadProgress \in 0..100
        /\ xfer.bytesUploaded \in 0..xfer.fileSize

\* C33: while an attempt of the item is under way the stored uploadProgress
\* never decreases, and the dispatch that starts an attempt writes 0.
C33_ProgressMonotone ==
    [][\A r \in RunIds :
          /\ (Attempting(xfer, r) /\ Attempting(xfer', r)) =>
                xfer'.uploadProgress >= xfer.uploadProgress
          /\ XBegin(r) => xfer'.uploadProgress = 0]_vars

====
